---- MODULE Spec2Model ----
(***************************************************************************)
(* Credential and token lifecycle of tecnet-back: AuthService               *)
(* (src/src/auth/auth.service.ts) and UsersService (the third class of      *)
(* src/src/users/dto/update-user.dto.ts) over the Prisma User table.        *)
(*                                                                          *)
(* Every request handler is an async function.  It is cut at its awaits:    *)
(* each database call is one atomic step on the User row, and the code that *)
(* runs between two awaits (where Date.now() is read and tokens are signed) *)
(* is one step.  Two workers interleave their steps freely.                 *)
(***************************************************************************)
EXTENDS Integers, Sequences, FiniteSets, TLC

\* ---------------------------------------------------------------- bounds
MaxCalls == 2
MaxSessionCalls == 2
MaxLifecycleCalls == 2
MaxExpiryCalls == 2
MaxActivationCalls == 3
MaxRefreshCalls == 3
MaxAccountCalls == 2
MaxIssueCalls == 3
MaxMailCalls == 2
MaxPasswordCalls == 3
MaxTenantCalls == 2
MaxTokenCalls == 2
MaxTokLen == 4

\* ------------------------------------------------------ program constants
RefreshTokenDbTtlMs == 7 * 24 * 60 * 60 * 1000
ActivationTtlMs == 24 * 60 * 60 * 1000
ResetTtlMs == 1 * 60 * 60 * 1000
RefreshJwtTtlSec == 7 * 24 * 60 * 60
AccessJwtTtlSec == 15 * 60
MsPerSec == 1000

\* ------------------------------------------------------------ value sets
Procs == {1, 2}
UserIds == {"u1"}
Passwords == {"pw1", "pw2"}
Salts == {1}
NoUser == "none"
\* a well-formed uuid that no row carries
GhostId == "u0"
AccountIds == UserIds \cup {GhostId}
NullDate == 0 - 1

Email(u) == IF u = "u1" THEN "a@x.com" ELSE "b@x.com"
GhostEmail == "ghost@x.com"
Emails == {Email(u) : u \in UserIds} \cup {GhostEmail}

\* the instants the clock visits: the start, the same second, the next
\* second, and each lifetime's last instant and the millisecond after it
Instants ==
    {0, 1, MsPerSec, ResetTtlMs, ResetTtlMs + 1, ActivationTtlMs,
     ActivationTtlMs + 1, RefreshTokenDbTtlMs, RefreshTokenDbTtlMs + 1}

\* ---------------------------------------------------------------- tokens
\* All tokens share one record shape.  A JWT is its claims (the HS256
\* signature is a function of the claims and the secret, so two JWTs with the
\* same claims and secret are the same string); an opaque token is its
\* random value.
NullTok == [cls |-> "null", sub |-> NoUser, email |-> "", iat |-> 0, exp |-> 0, n |-> 0]
RandTok(k) == [cls |-> "rand", sub |-> NoUser, email |-> "", iat |-> 0, exp |-> 0, n |-> k]
ForgedTok == [cls |-> "forged", sub |-> NoUser, email |-> "", iat |-> 0, exp |-> 0, n |-> 0]

JwtTtl(cls) == IF cls = "refresh" THEN RefreshJwtTtlSec ELSE AccessJwtTtlSec

\* JwtService.sign: iat is Date.now() in whole seconds, exp = iat + expiresIn
JwtSign(cls, payload, t) ==
    [cls |-> cls, sub |-> payload.sub, email |-> payload.email,
     iat |-> t \div MsPerSec, exp |-> (t \div MsPerSec) + JwtTtl(cls), n |-> 0]

\* JwtService.verify: right secret and clock (seconds) strictly before exp
JwtVerify(tok, cls, t) == tok.cls = cls /\ (t \div MsPerSec) < tok.exp

\* (mutant) every password verifies
BcryptCompareAny(plain, hashed) == TRUE

\* bcrypt
BcryptHash(plain, salt) == [salt |-> salt, digest |-> <<salt, plain>>]
BcryptCompare(plain, hashed) == hashed.digest = <<hashed.salt, plain>>

NoHash == [salt |-> 0, digest |-> <<0, "">>]

\* token strings: two hex digits and a character that is none
Chars == {"a", "b", "g"}
TokStrings == UNION {[1..k -> Chars] : k \in 0..MaxTokLen}
HexVal(ch) ==
    IF ch = "a" THEN 10 ELSE IF ch = "b" THEN 11 ELSE 0 - 1

\* Buffer.from(s, 'hex'): one byte per pair of hex digits, up to the first
\* pair that is not hex; an odd last character is dropped
RECURSIVE HexDecode(_)
HexDecode(s) ==
    IF Len(s) < 2 \/ HexVal(s[1]) < 0 \/ HexVal(s[2]) < 0 THEN <<>>
    ELSE <<16 * HexVal(s[1]) + HexVal(s[2])>> \o HexDecode(SubSeq(s, 3, Len(s)))

\* crypto.timingSafeEqual(a, b): RangeError when the byte lengths differ
TimingSafeEqual(a, b) ==
    IF Len(a) # Len(b) THEN "throws" ELSE IF a = b THEN "true" ELSE "false"

\* verifyActivationToken(storedToken, providedToken)
VerifyActivationToken(storedToken, providedToken) ==
    TimingSafeEqual(HexDecode(storedToken), HexDecode(providedToken))

\* ------------------------------------------------------------------ state
VARIABLES
    users,   \* the User table: one row per id (exists = FALSE: no such row)
    now,     \* Date.now(), milliseconds
    rnd,     \* number of crypto.randomBytes(32) values drawn so far
    ncalls,  \* number of requests accepted so far
    callsLeft, \* requests the run may still accept
    proc,    \* per worker: the handler it runs, its position and its locals
    hist,    \* completed requests: what was presented and what came back
    mail     \* the sendEmail promises: pending, sent or failed

vars == <<users, now, rnd, ncalls, callsLeft, proc, hist, mail>>
meter == <<ncalls, callsLeft>>

\* model User of schema.prisma (the columns the services read or write)
NoRow ==
    [exists |-> FALSE, email |-> "", password |-> NoHash, isActive |-> FALSE,
     activationToken |-> NullTok, activationTokenExpires |-> NullDate,
     resetToken |-> NullTok, resetTokenExpiry |-> NullDate,
     refreshToken |-> NullTok, refreshTokenExpires |-> NullDate]

IdleProc ==
    [pc |-> "idle", id |-> 0, op |-> "", tok |-> NullTok, email |-> "",
     pw |-> "", usr |-> NoUser, ref |-> NullTok, acc |-> NullTok,
     exp |-> NullDate, hash |-> NoHash, chkNow |-> NullDate, chkExp |-> NullDate,
     pwOk |-> FALSE, vres |-> "", flag |-> "unset", ovl |-> 0,
     npw |-> "", msg |-> "", stored |-> <<>>, provided |-> <<>>, view |-> {}]

\* prisma findUnique: the unique constraints leave at most one match
FindUnique(S) == IF S = {} THEN NoUser ELSE CHOOSE u \in S : TRUE
\* the ids of the table's rows
Rows == DOMAIN users
ByEmail(e) == FindUnique({u \in Rows : users[u].exists /\ users[u].email = e})
ByActivationToken(t) ==
    FindUnique({u \in Rows : users[u].exists /\ users[u].activationToken = t})
ByResetToken(t) ==
    FindUnique({u \in Rows : users[u].exists /\ users[u].resetToken = t})
ByRefreshToken(t) ==
    FindUnique({u \in Rows : users[u].exists /\ users[u].refreshToken = t})
\* findUnique({where: {id}}) finds a row
RowExists(id) == id \in Rows /\ users[id].exists

\* ------------------------------------------------------ request plumbing
Idle(p) == proc[p].pc = "idle"
At(p, pc) == proc[p].pc = pc
\* a request is taken by the first free worker
CanStart(p) == Idle(p) /\ callsLeft > 0 /\ \A q \in Procs : q < p => ~Idle(q)
Accept == ncalls' = ncalls + 1 /\ callsLeft' = callsLeft - 1

\* id of a request another worker has in flight (0: none)
InFlight(p) ==
    IF \E q \in Procs \ {p} : ~Idle(q)
    THEN proc[CHOOSE q \in Procs \ {p} : ~Idle(q)].id ELSE 0

\* a fresh request on worker p
Begin(p, op, tok, email, pw) ==
    [IdleProc EXCEPT !.id = ncalls + 1, !.op = op, !.tok = tok, !.email = email,
                     !.pw = pw, !.ovl = InFlight(p)]

\* what the request leaves behind when it returns or throws
Done(c, outcome, ret, active) ==
    [id |-> c.id, op |-> c.op, tok |-> c.tok, email |-> c.email, pw |-> c.pw,
     usr |-> c.usr, outcome |-> outcome, ret |-> ret, acc |-> c.acc,
     chkNow |-> c.chkNow, chkExp |-> c.chkExp, pwOk |-> c.pwOk,
     vres |-> c.vres, active |-> active, ovl |-> c.ovl,
     npw |-> c.npw, msg |-> c.msg, stored |-> c.stored,
     provided |-> c.provided, view |-> c.view]

\* the handler on p (locals c) returns or throws
Finish(p, c, outcome, ret, active) ==
    /\ hist' = hist \cup {Done(c, outcome, ret, active)}
    /\ proc' = [proc EXCEPT ![p] = IdleProc]
    /\ mail' = mail

\* the sendEmail promise of an issuing request
Letter(id, to, tok) == [id |-> id, to |-> to, tok |-> tok, state |-> "pending"]

\* the handler on p starts sendEmail(to, link with tok) without awaiting it,
\* and returns the user
FinishSending(p, c, to, tok, active) ==
    /\ hist' = hist \cup {Done(c, "ok", tok, active)}
    /\ proc' = [proc EXCEPT ![p] = IdleProc]
    /\ mail' = mail \cup {Letter(c.id, to, tok)}

\* the handler on p throws an HttpException of that kind with that message
Throw(p, c, kind, message) ==
    Finish(p, [c EXCEPT !.msg = message], kind, NullTok, FALSE)

\* the handler on p goes on with locals c at position pc
Goto(p, c, pc) ==
    /\ proc' = [proc EXCEPT ![p] = [c EXCEPT !.pc = pc]]
    /\ hist' = hist
    /\ mail' = mail

\* refresh tokens a client holds: the ones login and refresh returned
HeldRefresh == {h.ret : h \in {g \in hist : g.op \in {"login", "refreshToken"} /\ g.outcome = "ok"}}
\* the operations that issue an opaque token and mail it
Issuers == {"create", "resetPassword", "resendActivation"}
\* opaque tokens that were mailed out
Mailed == {h.ret : h \in {g \in hist : g.op \in {"create", "resetPassword", "resendActivation"} /\ g.outcome = "ok"}}

\* -------------------------------------------------------------- the clock
Tick(t) ==
    /\ t > now
    /\ now' = t
    /\ UNCHANGED <<users, rnd, meter, proc, hist, mail>>

\* sendEmail settles: transporter.sendMail resolved (logged), or it rejected
\* and the InternalServerErrorException ends in the caller's catch (logged)
MailSettle(m, result) ==
    /\ m \in mail
    /\ m.state = "pending"
    /\ mail' = (mail \ {m}) \cup {[m EXCEPT !.state = result]}
    /\ UNCHANGED <<users, now, rnd, meter, proc, hist>>

\* ------------------------------------------------------------ AuthService
\* (mutant) an unknown email is reported as such
ValidateUserResultNotFound(u, pass) ==
    IF u = NoUser THEN "notfound"
    ELSE IF users[u].isActive = FALSE THEN "forbidden"
    ELSE IF BcryptCompare(pass, users[u].password) THEN "user"
    ELSE "null"

\* validateUser: "forbidden" is the ForbiddenException (Account Inactive),
\* "user" the row without its password, "null" the validation failure
ValidateUserResult(u, pass) ==
    IF u # NoUser /\ users[u].isActive = FALSE THEN "forbidden"
    ELSE IF u # NoUser /\ BcryptCompare(pass, users[u].password) THEN "user"
    ELSE "null"

\* the local strategy turns validateUser's null into Unauthorized
LocalStrategyOutcome(r) == IF r = "null" THEN "unauthorized" ELSE r

\* POST auth/login, first half: the guard runs validateUser(email, pass)
LoginValidate(p, email, pass) ==
    /\ CanStart(p)
    /\ LET u == ByEmail(email)
           r == ValidateUserResult(u, pass)
           c == [Begin(p, "login", NullTok, email, pass) EXCEPT
                    !.usr = u, !.chkNow = now, !.vres = r,
                    !.pwOk = (u # NoUser /\ BcryptCompare(pass, users[u].password))]
       IN  IF r = "user"
           THEN Goto(p, c, "login_sign")
           ELSE Finish(p, c, LocalStrategyOutcome(r), NullTok,
                       u # NoUser /\ users[u].isActive)
    /\ Accept
    /\ UNCHANGED <<users, now, rnd>>

\* login(user): both tokens are signed and the expiry computed from Date.now()
LoginSign(p) ==
    /\ At(p, "login_sign")
    /\ LET c == proc[p]
           payload == [sub |-> c.usr, email |-> c.email]
       IN  Goto(p, [c EXCEPT !.acc = JwtSign("access", payload, now),
                             !.ref = JwtSign("refresh", payload, now),
                             !.exp = now + RefreshTokenDbTtlMs], "login_write")
    /\ UNCHANGED <<users, now, rnd, meter>>

\* (mutant) storing the refresh token also drops a pending password reset
LoginWriteClearsReset(p) ==
    /\ At(p, "login_write")
    /\ LET c == proc[p]
       IN  /\ users' = [users EXCEPT ![c.usr].refreshToken = c.ref,
                                     ![c.usr].refreshTokenExpires = c.exp,
                                     ![c.usr].resetToken = NullTok,
                                     ![c.usr].resetTokenExpiry = NullDate]
           /\ Finish(p, c, "ok", c.ref, users[c.usr].isActive)
    /\ UNCHANGED <<now, rnd, meter>>

\* login(user): user.update({where: {id}, data: {refreshToken, refreshTokenExpires}})
LoginWrite(p) ==
    /\ At(p, "login_write")
    /\ LET c == proc[p]
       IN  IF users[c.usr].exists
           THEN /\ users' = [users EXCEPT ![c.usr].refreshToken = c.ref,
                                          ![c.usr].refreshTokenExpires = c.exp]
                /\ Finish(p, c, "ok", c.ref, users[c.usr].isActive)
           ELSE /\ users' = users
                /\ Finish(p, c, "internal", NullTok, FALSE)
    /\ UNCHANGED <<now, rnd, meter>>

\* (mutant) a missing row (P2025) is reported to the caller
LogoutStrict(p, u) ==
    /\ CanStart(p)
    /\ users' = IF RowExists(u)
                THEN [users EXCEPT ![u].refreshToken = NullTok,
                                   ![u].refreshTokenExpires = NullDate]
                ELSE users
    /\ LET c == [Begin(p, "logout", NullTok, "", "") EXCEPT !.usr = u]
       IN  IF RowExists(u)
           THEN Finish(p, c, "ok", NullTok, users[u].isActive)
           ELSE Throw(p, c, "notfound", "User not found")
    /\ Accept
    /\ UNCHANGED <<now, rnd>>

\* logout(userId): one update clearing both refresh columns; P2025 is success too
Logout(p, u) ==
    /\ CanStart(p)
    /\ users' = IF RowExists(u)
                THEN [users EXCEPT ![u].refreshToken = NullTok,
                                   ![u].refreshTokenExpires = NullDate]
                ELSE users
    /\ Finish(p, [Begin(p, "logout", NullTok, "", "") EXCEPT
                     !.usr = u, !.msg = "Logout successful"], "ok",
              NullTok, RowExists(u) /\ users[u].isActive)
    /\ Accept
    /\ UNCHANGED <<now, rnd>>

\* the where clause of refreshToken's findUnique
RefreshTokenAccepts(u, tok, t) ==
    /\ users[u].exists
    /\ users[u].refreshToken = tok
    /\ users[u].refreshTokenExpires > t

\* refreshToken(tok): findUnique({refreshToken, refreshTokenExpires: {gt: new Date()}})
RefreshFind(p, tok) ==
    /\ CanStart(p)
    /\ LET u == FindUnique({v \in Rows : RefreshTokenAccepts(v, tok, now)})
           m == ByRefreshToken(tok)
           c == [Begin(p, "refreshToken", tok, "", "") EXCEPT
                    !.usr = u, !.chkNow = now,
                    !.email = IF u = NoUser THEN "" ELSE users[u].email,
                    !.chkExp = IF m = NoUser THEN NullDate
                               ELSE users[m].refreshTokenExpires]
       IN  IF u = NoUser
           THEN Throw(p, c, "unauthorized", "Invalid or expired refresh token")
           ELSE Goto(p, c, "rt_verify")
    /\ Accept
    /\ UNCHANGED <<users, now, rnd>>

\* refreshToken: refreshJwtService.verify, then the new pair is signed
RefreshVerify(p) ==
    /\ At(p, "rt_verify")
    /\ LET c == proc[p]
           payload == [sub |-> c.usr, email |-> c.email]
       IN  IF ~JwtVerify(c.tok, "refresh", now)
           THEN Goto(p, [c EXCEPT !.vres = "badjwt"], "rt_clear")
           ELSE Goto(p, [c EXCEPT !.vres = "verified",
                                  !.acc = JwtSign("access", payload, now),
                                  !.ref = JwtSign("refresh", payload, now),
                                  !.exp = now + RefreshTokenDbTtlMs], "rt_write")
    /\ UNCHANGED <<users, now, rnd, meter>>

\* (mutant) a token that fails verification is refused but left in the row
RefreshClearKeepsToken(p) ==
    /\ At(p, "rt_clear")
    /\ users' = users
    /\ Throw(p, proc[p], "unauthorized", "Invalid refresh token")
    /\ UNCHANGED <<now, rnd, meter>>

\* refreshToken, verify failed: both refresh columns are cleared, Unauthorized
RefreshClear(p) ==
    /\ At(p, "rt_clear")
    /\ LET c == proc[p]
       IN  IF users[c.usr].exists
           THEN /\ users' = [users EXCEPT ![c.usr].refreshToken = NullTok,
                                          ![c.usr].refreshTokenExpires = NullDate]
                /\ Finish(p, [c EXCEPT !.msg = "Invalid refresh token"],
                          "unauthorized", NullTok, users[c.usr].isActive)
           ELSE /\ users' = users
                /\ Finish(p, c, "internal", NullTok, FALSE)
    /\ UNCHANGED <<now, rnd, meter>>

\* (mutant) the update has no where clause that singles out the row
RefreshWriteEveryRow(p) ==
    /\ At(p, "rt_write")
    /\ LET c == proc[p]
       IN  /\ users' = [u \in Rows |->
                          [users[u] EXCEPT !.refreshToken = c.ref,
                                           !.refreshTokenExpires = c.exp]]
           /\ Finish(p, c, "ok", c.ref, users[c.usr].isActive)
    /\ UNCHANGED <<now, rnd, meter>>

\* refreshToken: user.update({where: {id: dbUser.id}, data: {new token, expiry}})
RefreshWrite(p) ==
    /\ At(p, "rt_write")
    /\ LET c == proc[p]
       IN  IF users[c.usr].exists
           THEN /\ users' = [users EXCEPT ![c.usr].refreshToken = c.ref,
                                          ![c.usr].refreshTokenExpires = c.exp]
                /\ Finish(p, c, "ok", c.ref, users[c.usr].isActive)
           ELSE /\ users' = users
                /\ Finish(p, c, "internal", NullTok, FALSE)
    /\ UNCHANGED <<now, rnd, meter>>

\* the user a valid access token of account id stands for (req.user)
ReqUser(id) ==
    [id |-> id, email |-> IF id = GhostId THEN GhostEmail ELSE Email(id)]

\* getProfile(user): findUnique({email}, include role); the row is returned
\* as it was read
GetProfile(p, user) ==
    /\ CanStart(p)
    /\ LET u == ByEmail(user.email)
           c == [Begin(p, "getProfile", NullTok, user.email, "") EXCEPT !.usr = u]
       IN  IF u = NoUser
           THEN Throw(p, c, "notfound", "User con ID no encontrado")
           ELSE Finish(p, [c EXCEPT !.view = DOMAIN users[u] \ {"exists"}],
                       "ok", NullTok, users[u].isActive)
    /\ Accept
    /\ UNCHANGED <<users, now, rnd>>

\* a call of verifyActivationToken(storedToken, providedToken)
VerifyCall(p, storedToken, providedToken) ==
    /\ CanStart(p)
    /\ LET r == VerifyActivationToken(storedToken, providedToken)
           c == [Begin(p, "verifyActivationToken", NullTok, "", "") EXCEPT
                    !.stored = storedToken, !.provided = providedToken, !.vres = r]
       IN  Finish(p, c, IF r = "throws" THEN "throws" ELSE "ok", NullTok, FALSE)
    /\ Accept
    /\ UNCHANGED <<users, now, rnd>>

\* ----------------------------------------------------------- UsersService
\* the row id prisma assigns (uuid), named after the email it is created for
NewId(email) == FindUnique({u \in UserIds : Email(u) = email})

\* create(dto), up to the insert: hash, activation token, expiry = now + 24 h
CreateGen(p, email, pw, salt) ==
    /\ CanStart(p)
    /\ Goto(p, [Begin(p, "create", NullTok, email, pw) EXCEPT
                   !.hash = BcryptHash(pw, salt), !.ref = RandTok(rnd + 1),
                   !.exp = now + ActivationTtlMs], "cr_write")
    /\ rnd' = rnd + 1
    /\ Accept
    /\ UNCHANGED <<users, now>>

\* create(dto): user.create; a taken email is P2002, thrown as Conflict
CreateWrite(p) ==
    /\ At(p, "cr_write")
    /\ LET c == proc[p]
           u == NewId(c.email)
       IN  IF ByEmail(c.email) # NoUser \/ u = NoUser
           THEN /\ users' = users
                /\ Finish(p, c, "conflict", NullTok, FALSE)
           ELSE /\ users' = [users EXCEPT ![u] =
                        [NoRow EXCEPT !.exists = TRUE, !.email = c.email,
                                      !.password = c.hash, !.isActive = FALSE,
                                      !.activationToken = c.ref,
                                      !.activationTokenExpires = c.exp]]
                /\ FinishSending(p, [c EXCEPT !.usr = u], c.email, c.ref, FALSE)
    /\ UNCHANGED <<now, rnd, meter>>

\* the test activateUser makes on the row it read: expired or not
ActivationExpired(expires, t) == expires = NullDate \/ expires < t

\* activateUser(token): findByActivationToken(token)
ActivateFind(p, tok) ==
    /\ CanStart(p)
    /\ LET u == ByActivationToken(tok)
           c == [Begin(p, "activateUser", tok, "", "") EXCEPT
                    !.usr = u,
                    !.chkExp = IF u = NoUser THEN NullDate
                               ELSE users[u].activationTokenExpires]
       IN  IF u = NoUser
           THEN Throw(p, c, "unauthorized", "Invalid activation token.")
           ELSE Goto(p, c, "act_check")
    /\ Accept
    /\ UNCHANGED <<users, now, rnd>>

\* activateUser: the expiry of the row that was read against new Date()
ActivateCheck(p) ==
    /\ At(p, "act_check")
    /\ LET c == [proc[p] EXCEPT !.chkNow = now]
       IN  IF ActivationExpired(c.chkExp, now)
           THEN Throw(p, c, "unauthorized", "Activation token has expired.")
           ELSE Goto(p, c, "act_write")
    /\ UNCHANGED <<users, now, rnd, meter>>

\* (mutant) the activation fields are cleared but the account is not activated
ActivateWriteTokenOnly(p) ==
    /\ At(p, "act_write")
    /\ LET c == proc[p]
       IN  /\ users' = [users EXCEPT ![c.usr].activationToken = NullTok,
                                     ![c.usr].activationTokenExpires = NullDate]
           /\ Finish(p, c, "ok", NullTok, users[c.usr].isActive)
    /\ UNCHANGED <<now, rnd, meter>>

\* (mutant) the activation token is cleared but its expiry is left
ActivateWriteKeepsExpiry(p) ==
    /\ At(p, "act_write")
    /\ LET c == proc[p]
       IN  /\ users' = [users EXCEPT ![c.usr].isActive = TRUE,
                                     ![c.usr].activationToken = NullTok]
           /\ Finish(p, c, "ok", NullTok, users[c.usr].isActive)
    /\ UNCHANGED <<now, rnd, meter>>

\* activateUser: user.update({where: {id}, data: {isActive: true, token fields null}})
ActivateWrite(p) ==
    /\ At(p, "act_write")
    /\ LET c == proc[p]
       IN  IF users[c.usr].exists
           THEN /\ users' = [users EXCEPT ![c.usr].isActive = TRUE,
                                          ![c.usr].activationToken = NullTok,
                                          ![c.usr].activationTokenExpires = NullDate]
                /\ Finish(p, c, "ok", NullTok, users[c.usr].isActive)
           ELSE /\ users' = users
                /\ Finish(p, c, "internal", NullTok, FALSE)
    /\ UNCHANGED <<now, rnd, meter>>

\* findByEmailAndSendEmailActivation(email): findUnique({email})
ResendFind(p, email) ==
    /\ CanStart(p)
    /\ LET u == ByEmail(email)
           c == [Begin(p, "resendActivation", NullTok, email, "") EXCEPT !.usr = u]
       IN  IF u = NoUser
           THEN Finish(p, c, "notfound", NullTok, FALSE)
           ELSE Goto(p, c, "ra_gen")
    /\ Accept
    /\ UNCHANGED <<users, now, rnd>>

\* findByEmailAndSendEmailActivation: new token, expiry = now + 24 h
ResendGen(p) ==
    /\ At(p, "ra_gen")
    /\ Goto(p, [proc[p] EXCEPT !.ref = RandTok(rnd + 1),
                               !.exp = now + ActivationTtlMs], "ra_write")
    /\ rnd' = rnd + 1
    /\ UNCHANGED <<users, now, meter>>

\* findByEmailAndSendEmailActivation: the update of the two activation columns
ResendWrite(p) ==
    /\ At(p, "ra_write")
    /\ LET c == proc[p]
       IN  IF users[c.usr].exists
           THEN /\ users' = [users EXCEPT ![c.usr].activationToken = c.ref,
                                          ![c.usr].activationTokenExpires = c.exp]
                /\ FinishSending(p, c, c.email, c.ref, users[c.usr].isActive)
           ELSE /\ users' = users
                /\ Finish(p, c, "internal", NullTok, FALSE)
    /\ UNCHANGED <<now, rnd, meter>>

\* resetPassword(email): findUserByEmail; no row is NotFoundException
ResetRequestFind(p, email) ==
    /\ CanStart(p)
    /\ LET u == ByEmail(email)
           c == [Begin(p, "resetPassword", NullTok, email, "") EXCEPT !.usr = u]
       IN  IF u = NoUser
           THEN Throw(p, c, "notfound", "User not found")
           ELSE Goto(p, c, "rp_gen")
    /\ Accept
    /\ UNCHANGED <<users, now, rnd>>

\* resetPassword: new token, expiry = now + 1 h
ResetRequestGen(p) ==
    /\ At(p, "rp_gen")
    /\ Goto(p, [proc[p] EXCEPT !.ref = RandTok(rnd + 1),
                               !.exp = now + ResetTtlMs], "rp_write")
    /\ rnd' = rnd + 1
    /\ UNCHANGED <<users, now, meter>>

\* (mutant) the send is awaited and its failure fails the request
ResetRequestWriteAwaitsMail(p) ==
    /\ At(p, "rp_write")
    /\ LET c == proc[p]
       IN  /\ users' = [users EXCEPT ![c.usr].resetToken = c.ref,
                                     ![c.usr].resetTokenExpiry = c.exp]
           /\ \E r \in {"ok", "internal"} :
                 hist' = hist \cup {Done(c, r, c.ref, users[c.usr].isActive)}
           /\ proc' = [proc EXCEPT ![p] = IdleProc]
           /\ mail' = mail \cup {Letter(c.id, c.email, c.ref)}
    /\ UNCHANGED <<now, rnd, meter>>

\* (mutant) a pending reset token is not overwritten
ResetRequestWriteKeepsPending(p) ==
    /\ At(p, "rp_write")
    /\ LET c == proc[p]
       IN  /\ users' = IF users[c.usr].resetToken # NullTok THEN users
                       ELSE [users EXCEPT ![c.usr].resetToken = c.ref,
                                          ![c.usr].resetTokenExpiry = c.exp]
           /\ FinishSending(p, c, c.email, c.ref, users[c.usr].isActive)
    /\ UNCHANGED <<now, rnd, meter>>

\* resetPassword: the update of the two reset columns
ResetRequestWrite(p) ==
    /\ At(p, "rp_write")
    /\ LET c == proc[p]
       IN  IF users[c.usr].exists
           THEN /\ users' = [users EXCEPT ![c.usr].resetToken = c.ref,
                                          ![c.usr].resetTokenExpiry = c.exp]
                /\ FinishSending(p, c, c.email, c.ref, users[c.usr].isActive)
           ELSE /\ users' = users
                /\ Finish(p, c, "internal", NullTok, FALSE)
    /\ UNCHANGED <<now, rnd, meter>>

\* (mutant) the expiry is never compared with the clock
ResetExpiredNoClock(expiry, t) == expiry = NullDate

\* the test findByResetToken makes on the row it read: expired or not
ResetExpired(expiry, t) == expiry = NullDate \/ expiry < t

\* findByResetToken(resetToken): findUnique({resetToken}); no row is NotFound
ResetLookup(p, op, tok, pw) ==
    /\ CanStart(p)
    /\ LET u == ByResetToken(tok)
           c == [Begin(p, op, tok, "", pw) EXCEPT
                    !.usr = u,
                    !.chkExp = IF u = NoUser THEN NullDate
                               ELSE users[u].resetTokenExpiry]
       IN  IF u = NoUser
           THEN Throw(p, c, "notfound", "Invalid reset token.")
           ELSE Goto(p, c, "rs_check")
    /\ Accept
    /\ UNCHANGED <<users, now, rnd>>

\* GET users/check-token/:resetToken
CheckTokenFind(p, tok) == ResetLookup(p, "findByResetToken", tok, "")

\* updatePassword(resetToken, newPassword) starts with findByResetToken
UpdatePasswordFind(p, tok, pw) == ResetLookup(p, "updatePassword", tok, pw)

\* findByResetToken: the expiry check; updatePassword then hashes the password
ResetCheck(p, salt) ==
    /\ At(p, "rs_check")
    /\ LET c == [proc[p] EXCEPT !.chkNow = now]
       IN  IF ResetExpired(c.chkExp, now)
           THEN Throw(p, c, "notfound", "Reset token has expired.")
           ELSE IF c.op = "findByResetToken"
           THEN Finish(p, c, "ok", NullTok, FALSE)
           ELSE Goto(p, [c EXCEPT !.hash = BcryptHash(c.pw, salt)], "up_write")
    /\ UNCHANGED <<users, now, rnd, meter>>

\* (mutant) the password is stored but the reset token is left in place
UpdatePasswordWriteKeepsToken(p) ==
    /\ At(p, "up_write")
    /\ LET c == proc[p]
       IN  /\ users' = [users EXCEPT ![c.usr].password = c.hash]
           /\ Finish(p, c, "ok", NullTok, users[c.usr].isActive)
    /\ UNCHANGED <<now, rnd, meter>>

\* updatePassword: user.update({where: {id}, data: {password, reset fields null}})
UpdatePasswordWrite(p) ==
    /\ At(p, "up_write")
    /\ LET c == proc[p]
       IN  IF users[c.usr].exists
           THEN /\ users' = [users EXCEPT ![c.usr].password = c.hash,
                                          ![c.usr].resetToken = NullTok,
                                          ![c.usr].resetTokenExpiry = NullDate]
                /\ Finish(p, c, "ok", NullTok, users[c.usr].isActive)
           ELSE /\ users' = users
                /\ Finish(p, c, "internal", NullTok, FALSE)
    /\ UNCHANGED <<now, rnd, meter>>

\* changePassword(userId, currentPassword, newPassword): findUnique({id})
ChangePasswordFind(p, id, cur, new) ==
    /\ CanStart(p)
    /\ LET c == [Begin(p, "changePassword", NullTok, "", cur) EXCEPT
                    !.usr = id, !.npw = new,
                    !.hash = IF RowExists(id) THEN users[id].password ELSE NoHash]
       IN  IF ~RowExists(id)
           THEN Throw(p, c, "unauthorized", "User not found.")
           ELSE Goto(p, c, "cp_check")
    /\ Accept
    /\ UNCHANGED <<users, now, rnd>>

\* (mutant) the current password is not compared
ChangePasswordCheckNoCompare(p, salt) ==
    /\ At(p, "cp_check")
    /\ LET c == [proc[p] EXCEPT !.pwOk = TRUE]
       IN  Goto(p, [c EXCEPT !.hash = BcryptHash(c.npw, salt)], "cp_write")
    /\ UNCHANGED <<users, now, rnd, meter>>

\* changePassword: bcrypt.compare with the hash that was read, then
\* hashPassword(newPassword)
ChangePasswordCheck(p, salt) ==
    /\ At(p, "cp_check")
    /\ LET c == [proc[p] EXCEPT !.pwOk = BcryptCompare(proc[p].pw, proc[p].hash)]
       IN  IF ~c.pwOk
           THEN Throw(p, c, "unauthorized", "Incorrect current password.")
           ELSE Goto(p, [c EXCEPT !.hash = BcryptHash(c.npw, salt)], "cp_write")
    /\ UNCHANGED <<users, now, rnd, meter>>

\* (mutant) changing the password also ends the session
ChangePasswordWriteRevokes(p) ==
    /\ At(p, "cp_write")
    /\ LET c == proc[p]
       IN  /\ users' = [users EXCEPT ![c.usr].password = c.hash,
                                     ![c.usr].refreshToken = NullTok,
                                     ![c.usr].refreshTokenExpires = NullDate]
           /\ Finish(p, c, "ok", NullTok, users[c.usr].isActive)
    /\ UNCHANGED <<now, rnd, meter>>

\* changePassword: user.update({where: {id: userId}, data: {password}})
ChangePasswordWrite(p) ==
    /\ At(p, "cp_write")
    /\ LET c == proc[p]
       IN  IF users[c.usr].exists
           THEN /\ users' = [users EXCEPT ![c.usr].password = c.hash]
                /\ Finish(p, c, "ok", NullTok, users[c.usr].isActive)
           ELSE /\ users' = users
                /\ Finish(p, c, "internal", NullTok, FALSE)
    /\ UNCHANGED <<now, rnd, meter>>

\* the UpdateUserDto bodies tried: isActive alone, or password alone
UpdateDtos ==
    {[flag |-> "false", pw |-> ""], [flag |-> "true", pw |-> ""],
     [flag |-> "unset", pw |-> "pw2"]}

\* update(id, dto): findOne(id), then the password is hashed if one was given
UpdateFind(p, u, dto, salt) ==
    /\ CanStart(p)
    /\ LET c == [Begin(p, "update", NullTok, "", dto.pw) EXCEPT
                    !.usr = u, !.flag = dto.flag,
                    !.hash = IF dto.pw # "" THEN BcryptHash(dto.pw, salt) ELSE NoHash]
       IN  IF ~users[u].exists
           THEN Finish(p, c, "notfound", NullTok, FALSE)
           ELSE Goto(p, c, "upd_write")
    /\ Accept
    /\ UNCHANGED <<users, now, rnd>>

\* update(id, dto): user.update({where: {id}, data: dataToUpdate})
UpdateWrite(p) ==
    /\ At(p, "upd_write")
    /\ LET c == proc[p]
           r == users[c.usr]
       IN  IF r.exists
           THEN /\ users' = [users EXCEPT ![c.usr] =
                        [r EXCEPT !.isActive = IF c.flag = "unset" THEN r.isActive
                                               ELSE c.flag = "true",
                                  !.password = IF c.pw # "" THEN c.hash
                                               ELSE r.password]]
                /\ Finish(p, c, "ok", NullTok, users'[c.usr].isActive)
           ELSE /\ users' = users
                /\ Finish(p, c, "internal", NullTok, FALSE)
    /\ UNCHANGED <<now, rnd, meter>>

\* --------------------------------------------------------- initial states
\* The table is persistent: a run starts from an empty table, or from what
\* earlier requests (all served at time 0) left in it.  hist holds those
\* requests, so the tokens they handed out are in the clients' hands.
Payload(u) == [sub |-> u, email |-> Email(u)]

CreateCall ==
    [IdleProc EXCEPT !.id = 1, !.op = "create", !.email = Email("u1"),
                     !.pw = "pw1", !.usr = "u1", !.hash = BcryptHash("pw1", 1),
                     !.ref = RandTok(1), !.exp = ActivationTtlMs]
ActivateCall ==
    [IdleProc EXCEPT !.id = 2, !.op = "activateUser", !.tok = RandTok(1),
                     !.usr = "u1", !.chkNow = 0, !.chkExp = ActivationTtlMs]
ResetCall ==
    [IdleProc EXCEPT !.id = 3, !.op = "resetPassword", !.email = Email("u1"),
                     !.usr = "u1", !.ref = RandTok(2), !.exp = ResetTtlMs]
LoginCall ==
    [IdleProc EXCEPT !.id = 4, !.op = "login", !.email = Email("u1"),
                     !.pw = "pw1", !.usr = "u1", !.chkNow = 0, !.pwOk = TRUE,
                     !.vres = "user",
                     !.acc = JwtSign("access", Payload("u1"), 0),
                     !.ref = JwtSign("refresh", Payload("u1"), 0),
                     !.exp = RefreshTokenDbTtlMs]

\* the row create() inserts: inactive, activation pending for 24 h
CreatedRow ==
    [NoRow EXCEPT !.exists = TRUE, !.email = Email("u1"),
                  !.password = BcryptHash("pw1", 1), !.isActive = FALSE,
                  !.activationToken = RandTok(1),
                  !.activationTokenExpires = ActivationTtlMs]

\* the same row after activateUser, resetPassword and login
LoggedInRow ==
    [CreatedRow EXCEPT !.isActive = TRUE, !.activationToken = NullTok,
                       !.activationTokenExpires = NullDate,
                       !.resetToken = RandTok(2), !.resetTokenExpiry = ResetTtlMs,
                       !.refreshToken = JwtSign("refresh", Payload("u1"), 0),
                       !.refreshTokenExpires = RefreshTokenDbTtlMs]

Start(row, past, nrnd, calls) ==
    /\ users = [u \in UserIds |-> IF u = "u1" THEN row ELSE NoRow]
    /\ now = 0
    /\ rnd = nrnd
    /\ ncalls = Cardinality(past)
    /\ callsLeft = calls
    /\ proc = [p \in Procs |-> IdleProc]
    /\ hist = past
    /\ mail = {Letter(h.id, h.email, h.ret) : h \in {g \in past : g.op \in Issuers}}

HistCreated == {Done(CreateCall, "ok", RandTok(1), FALSE)}
HistLoggedIn ==
    HistCreated \cup
    {Done(ActivateCall, "ok", NullTok, FALSE),
     Done(ResetCall, "ok", RandTok(2), TRUE),
     Done(LoginCall, "ok", LoginCall.ref, TRUE)}

InitEmpty(calls) == Start(NoRow, {}, 0, calls)
InitCreated(calls) == Start(CreatedRow, HistCreated, 1, calls)
InitLoggedIn(calls) == Start(LoggedInRow, HistLoggedIn, 2, calls)

\* A table with a second account: created, activated and logged in after the
\* first, at time 0 as well.
TenantIds == {"u1", "u2"}
SecondCreateCall ==
    [CreateCall EXCEPT !.id = 5, !.email = Email("u2"), !.usr = "u2",
                       !.ref = RandTok(3)]
SecondActivateCall ==
    [ActivateCall EXCEPT !.id = 6, !.tok = RandTok(3), !.usr = "u2"]
SecondLoginCall ==
    [LoginCall EXCEPT !.id = 7, !.email = Email("u2"), !.usr = "u2",
                      !.acc = JwtSign("access", Payload("u2"), 0),
                      !.ref = JwtSign("refresh", Payload("u2"), 0)]
SecondRow ==
    [NoRow EXCEPT !.exists = TRUE, !.email = Email("u2"),
                  !.password = BcryptHash("pw1", 1), !.isActive = TRUE,
                  !.refreshToken = JwtSign("refresh", Payload("u2"), 0),
                  !.refreshTokenExpires = RefreshTokenDbTtlMs]
HistTwoAccounts ==
    HistLoggedIn \cup
    {Done(SecondCreateCall, "ok", RandTok(3), FALSE),
     Done(SecondActivateCall, "ok", NullTok, FALSE),
     Done(SecondLoginCall, "ok", SecondLoginCall.ref, TRUE)}

InitTwoAccounts(calls) ==
    /\ users = [u \in TenantIds |-> IF u = "u1" THEN LoggedInRow ELSE SecondRow]
    /\ now = 0
    /\ rnd = 3
    /\ ncalls = Cardinality(HistTwoAccounts)
    /\ callsLeft = calls
    /\ proc = [p \in Procs |-> IdleProc]
    /\ hist = HistTwoAccounts
    /\ mail = {Letter(h.id, h.email, h.ret) :
                    h \in {g \in HistTwoAccounts : g.op \in Issuers}}

\* ------------------------------------------------------------ the system
\* The whole API, one request at a time.
Init ==
    \/ InitEmpty(MaxCalls)
    \/ InitCreated(MaxCalls)
    \/ InitLoggedIn(MaxCalls)

Next ==
    \/ \E t \in Instants : Tick(t)
    \/ \E e \in Emails, pw \in Passwords : LoginValidate(1, e, pw)
    \/ LoginSign(1)
    \/ LoginWrite(1)
    \/ \E u \in UserIds : Logout(1, u)
    \/ \E t \in HeldRefresh \cup {ForgedTok} : RefreshFind(1, t)
    \/ RefreshVerify(1)
    \/ RefreshClear(1)
    \/ RefreshWrite(1)
    \/ \E u \in AccountIds : GetProfile(1, ReqUser(u))
    \/ \E u \in UserIds, s \in Salts : CreateGen(1, Email(u), "pw1", s)
    \/ CreateWrite(1)
    \/ \E t \in Mailed \cup {ForgedTok} : ActivateFind(1, t)
    \/ ActivateCheck(1)
    \/ ActivateWrite(1)
    \/ \E e \in Emails : ResendFind(1, e)
    \/ ResendGen(1)
    \/ ResendWrite(1)
    \/ \E e \in Emails : ResetRequestFind(1, e)
    \/ ResetRequestGen(1)
    \/ ResetRequestWrite(1)
    \/ \E t \in Mailed \cup {ForgedTok} : CheckTokenFind(1, t)
    \/ \E t \in Mailed \cup {ForgedTok}, pw \in Passwords : UpdatePasswordFind(1, t, pw)
    \/ \E s \in Salts : ResetCheck(1, s)
    \/ UpdatePasswordWrite(1)
    \/ \E u \in UserIds, dto \in UpdateDtos, s \in Salts : UpdateFind(1, u, dto, s)
    \/ UpdateWrite(1)

Spec == Init /\ [][Next]_vars

\* Sessions: two workers interleave login, logout, refresh and update on a
\* logged-in account.
InitSession == InitLoggedIn(MaxSessionCalls)

SessionInstants == {1, MsPerSec, RefreshTokenDbTtlMs, RefreshTokenDbTtlMs + 1}

NextSession ==
    \/ \E t \in SessionInstants : Tick(t)
    \/ \E p \in Procs, e \in Emails, pw \in Passwords : LoginValidate(p, e, pw)
    \/ \E p \in Procs : LoginSign(p)
    \/ \E p \in Procs : LoginWrite(p)
    \/ \E p \in Procs, u \in AccountIds : Logout(p, u)
    \/ \E p \in Procs, t \in HeldRefresh \cup {ForgedTok} : RefreshFind(p, t)
    \/ \E p \in Procs : RefreshVerify(p)
    \/ \E p \in Procs : RefreshClear(p)
    \/ \E p \in Procs : RefreshWrite(p)
    \/ \E p \in Procs, u \in UserIds, dto \in UpdateDtos, s \in Salts :
            UpdateFind(p, u, dto, s)
    \/ \E p \in Procs : UpdateWrite(p)

SpecSession == InitSession /\ [][NextSession]_vars

\* Account lifecycle: two workers interleave activation and password reset on
\* an account that is waiting for its activation, or for a password reset.
InitLifecycle ==
    \/ InitCreated(MaxLifecycleCalls)
    \/ InitLoggedIn(MaxLifecycleCalls)

LifecycleInstants ==
    {1, ResetTtlMs, ResetTtlMs + 1, ActivationTtlMs, ActivationTtlMs + 1}

NextLifecycle ==
    \/ \E t \in LifecycleInstants : Tick(t)
    \/ \E p \in Procs, t \in Mailed \cup {ForgedTok} : ActivateFind(p, t)
    \/ \E p \in Procs : ActivateCheck(p)
    \/ \E p \in Procs : ActivateWrite(p)
    \/ \E p \in Procs, e \in Emails : ResendFind(p, e)
    \/ \E p \in Procs : ResendGen(p)
    \/ \E p \in Procs : ResendWrite(p)
    \/ \E p \in Procs, e \in Emails : ResetRequestFind(p, e)
    \/ \E p \in Procs : ResetRequestGen(p)
    \/ \E p \in Procs : ResetRequestWrite(p)
    \/ \E p \in Procs, t \in Mailed \cup {ForgedTok} : CheckTokenFind(p, t)
    \/ \E p \in Procs, t \in Mailed \cup {ForgedTok}, pw \in Passwords :
            UpdatePasswordFind(p, t, pw)
    \/ \E p \in Procs, s \in Salts : ResetCheck(p, s)
    \/ \E p \in Procs : UpdatePasswordWrite(p)

SpecLifecycle == InitLifecycle /\ [][NextLifecycle]_vars

\* Expiry: one request at a time consumes or re-issues the tokens of an
\* account that has some pending, while the clock runs past every lifetime.
InitExpiry == InitCreated(MaxExpiryCalls) \/ InitLoggedIn(MaxExpiryCalls)

NextExpiry ==
    \/ \E t \in Instants : Tick(t)
    \/ \E t \in Mailed \cup {ForgedTok} : ActivateFind(1, t)
    \/ ActivateCheck(1)
    \/ ActivateWrite(1)
    \/ \E t \in Mailed \cup {ForgedTok} : CheckTokenFind(1, t)
    \/ \E t \in Mailed \cup {ForgedTok} : UpdatePasswordFind(1, t, "pw2")
    \/ \E s \in Salts : ResetCheck(1, s)
    \/ UpdatePasswordWrite(1)
    \/ \E t \in HeldRefresh \cup {ForgedTok} : RefreshFind(1, t)
    \/ RefreshVerify(1)
    \/ RefreshClear(1)
    \/ RefreshWrite(1)
    \/ \E u \in UserIds : ResendFind(1, Email(u))
    \/ ResendGen(1)
    \/ ResendWrite(1)
    \/ \E u \in UserIds : ResetRequestFind(1, Email(u))
    \/ ResetRequestGen(1)
    \/ ResetRequestWrite(1)
    \/ \E u \in UserIds : LoginValidate(1, Email(u), "pw1")
    \/ LoginSign(1)
    \/ LoginWrite(1)

SpecExpiry == InitExpiry /\ [][NextExpiry]_vars

\* Activation: one request at a time logs in to, activates and re-issues the
\* activation of an account that was just created.
InitActivation == InitCreated(MaxActivationCalls)

ActivationInstants == {1, ActivationTtlMs, ActivationTtlMs + 1}

NextActivation ==
    \/ \E t \in ActivationInstants : Tick(t)
    \/ \E u \in UserIds, pw \in Passwords : LoginValidate(1, Email(u), pw)
    \/ LoginSign(1)
    \/ LoginWrite(1)
    \/ \E t \in Mailed \cup {ForgedTok} : ActivateFind(1, t)
    \/ ActivateCheck(1)
    \/ ActivateWrite(1)
    \/ \E u \in UserIds : ResendFind(1, Email(u))
    \/ ResendGen(1)
    \/ ResendWrite(1)

SpecActivation == InitActivation /\ [][NextActivation]_vars

\* Refresh: one request at a time logs in, refreshes and logs out while the
\* clock runs up to and past the seven days of a refresh token.
InitRefresh == InitLoggedIn(MaxRefreshCalls)

RefreshInstants == {1, MsPerSec, RefreshTokenDbTtlMs, RefreshTokenDbTtlMs + 1}

NextRefresh ==
    \/ \E t \in RefreshInstants : Tick(t)
    \/ \E u \in UserIds : LoginValidate(1, Email(u), "pw1")
    \/ LoginSign(1)
    \/ LoginWrite(1)
    \/ \E u \in AccountIds : Logout(1, u)
    \/ \E t \in HeldRefresh \cup {ForgedTok} : RefreshFind(1, t)
    \/ RefreshVerify(1)
    \/ RefreshClear(1)
    \/ RefreshWrite(1)

SpecRefresh == InitRefresh /\ [][NextRefresh]_vars

\* Account: one request at a time on an account that waits for its
\* activation, or is logged in with a password reset pending: sessions,
\* token issuing and password change.
InitAccount == InitCreated(MaxAccountCalls) \/ InitLoggedIn(MaxAccountCalls)

AccountInstants == {1, MsPerSec}

NextAccount ==
    \/ \E t \in AccountInstants : Tick(t)
    \/ \E u \in UserIds, pw \in Passwords : LoginValidate(1, Email(u), pw)
    \/ LoginSign(1)
    \/ LoginWrite(1)
    \/ \E u \in AccountIds : Logout(1, u)
    \/ \E t \in HeldRefresh \cup {ForgedTok} : RefreshFind(1, t)
    \/ RefreshVerify(1)
    \/ RefreshWrite(1)
    \/ \E e \in Emails : ResendFind(1, e)
    \/ ResendGen(1)
    \/ ResendWrite(1)
    \/ \E e \in Emails : ResetRequestFind(1, e)
    \/ ResetRequestGen(1)
    \/ ResetRequestWrite(1)
    \/ \E u \in AccountIds, cur \in Passwords, new \in Passwords :
            ChangePasswordFind(1, u, cur, new)
    \/ \E s \in Salts : ChangePasswordCheck(1, s)
    \/ ChangePasswordWrite(1)

SpecAccount == InitAccount /\ [][NextAccount]_vars

\* Issuing: one request at a time issues, re-issues and consumes the
\* activation and reset tokens of an account.
InitIssue == InitCreated(MaxIssueCalls) \/ InitLoggedIn(MaxIssueCalls)

IssueInstants == {1, ResetTtlMs, ResetTtlMs + 1}

NextIssue ==
    \/ \E t \in IssueInstants : Tick(t)
    \/ \E u \in UserIds : ResendFind(1, Email(u))
    \/ ResendGen(1)
    \/ ResendWrite(1)
    \/ \E u \in UserIds : ResetRequestFind(1, Email(u))
    \/ ResetRequestGen(1)
    \/ ResetRequestWrite(1)
    \/ \E t \in Mailed : ActivateFind(1, t)
    \/ ActivateCheck(1)
    \/ ActivateWrite(1)
    \/ \E t \in Mailed : UpdatePasswordFind(1, t, "pw2")
    \/ \E s \in Salts : ResetCheck(1, s)
    \/ UpdatePasswordWrite(1)

SpecIssue == InitIssue /\ [][NextIssue]_vars

\* Mail: one request at a time creates accounts and issues tokens, while the
\* mails that were started are delivered or fail.
InitMail == InitEmpty(MaxMailCalls) \/ InitCreated(MaxMailCalls) \/ InitLoggedIn(MaxMailCalls)

MailInstants == {1, MsPerSec}

NextMail ==
    \/ \E t \in MailInstants : Tick(t)
    \/ \E m \in mail, r \in {"sent", "failed"} : MailSettle(m, r)
    \/ \E u \in UserIds, s \in Salts : CreateGen(1, Email(u), "pw1", s)
    \/ CreateWrite(1)
    \/ \E e \in Emails : ResendFind(1, e)
    \/ ResendGen(1)
    \/ ResendWrite(1)
    \/ \E e \in Emails : ResetRequestFind(1, e)
    \/ ResetRequestGen(1)
    \/ ResetRequestWrite(1)

SpecMail == InitMail /\ [][NextMail]_vars

\* Comparison: verifyActivationToken applied once, to every pair of token
\* strings.
InitCompare == InitEmpty(1)

Compare(p) == CanStart(p) /\ \E s, t \in TokStrings : VerifyCall(p, s, t)

NextCompare == Compare(1)

SpecCompare == InitCompare /\ [][NextCompare]_vars

\* Passwords: one request at a time changes or resets the password of a
\* logged-in account, logs in and refreshes.
InitPassword == InitLoggedIn(MaxPasswordCalls)

PasswordInstants == {1, MsPerSec}

NextPassword ==
    \/ \E t \in PasswordInstants : Tick(t)
    \/ \E u \in UserIds, pw \in Passwords : LoginValidate(1, Email(u), pw)
    \/ LoginSign(1)
    \/ LoginWrite(1)
    \/ \E t \in HeldRefresh : RefreshFind(1, t)
    \/ RefreshVerify(1)
    \/ RefreshWrite(1)
    \/ \E u \in UserIds, cur \in Passwords, new \in Passwords :
            ChangePasswordFind(1, u, cur, new)
    \/ \E s \in Salts : ChangePasswordCheck(1, s)
    \/ ChangePasswordWrite(1)
    \/ \E t \in Mailed, pw \in Passwords : UpdatePasswordFind(1, t, pw)
    \/ \E s \in Salts : ResetCheck(1, s)
    \/ UpdatePasswordWrite(1)

SpecPassword == InitPassword /\ [][NextPassword]_vars

\* Tenants: one request at a time logs in, refreshes and logs out on a
\* table with two logged-in accounts.
InitTenants == InitTwoAccounts(MaxTenantCalls)

TenantInstants == {1, MsPerSec, RefreshTokenDbTtlMs}

NextTenants ==
    \/ \E t \in TenantInstants : Tick(t)
    \/ \E u \in TenantIds : LoginValidate(1, Email(u), "pw1")
    \/ LoginSign(1)
    \/ LoginWrite(1)
    \/ \E u \in TenantIds : Logout(1, u)
    \/ \E t \in HeldRefresh \cup {ForgedTok} : RefreshFind(1, t)
    \/ RefreshVerify(1)
    \/ RefreshClear(1)
    \/ RefreshWrite(1)

SpecTenants == InitTenants /\ [][NextTenants]_vars

\* Tokens: one request at a time runs every operation that sets or clears a
\* token column.
InitTokens ==
    InitEmpty(MaxTokenCalls) \/ InitCreated(MaxTokenCalls) \/ InitLoggedIn(MaxTokenCalls)

TokenInstants == {1, RefreshTokenDbTtlMs}

NextTokens ==
    \/ \E t \in TokenInstants : Tick(t)
    \/ \E u \in UserIds, s \in Salts : CreateGen(1, Email(u), "pw1", s)
    \/ CreateWrite(1)
    \/ \E u \in UserIds : LoginValidate(1, Email(u), "pw1")
    \/ LoginSign(1)
    \/ LoginWrite(1)
    \/ \E u \in AccountIds : Logout(1, u)
    \/ \E t \in HeldRefresh : RefreshFind(1, t)
    \/ RefreshVerify(1)
    \/ RefreshClear(1)
    \/ RefreshWrite(1)
    \/ \E t \in Mailed : ActivateFind(1, t)
    \/ ActivateCheck(1)
    \/ ActivateWrite(1)
    \/ \E u \in UserIds : ResendFind(1, Email(u))
    \/ ResendGen(1)
    \/ ResendWrite(1)
    \/ \E u \in UserIds : ResetRequestFind(1, Email(u))
    \/ ResetRequestGen(1)
    \/ ResetRequestWrite(1)
    \/ \E t \in Mailed : UpdatePasswordFind(1, t, "pw2")
    \/ \E s \in Salts : ResetCheck(1, s)
    \/ UpdatePasswordWrite(1)
    \/ \E u \in UserIds, dto \in UpdateDtos, s \in Salts : UpdateFind(1, u, dto, s)
    \/ UpdateWrite(1)

SpecTokens == InitTokens /\ [][NextTokens]_vars

\* ================================================================ claims
Ok(h) == h.outcome = "ok"
Calls(op) == {h \in hist : h.op = op}
\* b was accepted while a was being served, or a while b was
Concurrent(a, b) == a.ovl = b.id \/ b.ovl = a.id
\* b was accepted after a had returned
After(a, b) == a.id < b.id /\ ~Concurrent(a, b)
\* the consuming request h met a stored token whose expiry was before / at its check
PastExpiry(h) == h.chkExp # NullDate /\ h.chkExp < h.chkNow
AtExpiry(h) == h.chkExp # NullDate /\ h.chkExp = h.chkNow
Consumers == {"activateUser", "findByResetToken", "updatePassword", "refreshToken"}
\* the requests that take this step
Movers ==
    {h.op : h \in hist' \ hist}
        \cup {proc[p].op : p \in {q \in Procs : proc'[q] # proc[q] /\ ~Idle(q)}}
        \cup {proc'[p].op : p \in {q \in Procs : proc'[q] # proc[q] /\ proc'[q].pc # "idle"}}
\* in this step no column outside F changes, in any row
OnlyChanged(F) ==
    \A u \in Rows : \A f \in DOMAIN NoRow \ F : users'[u][f] = users[u][f]
\* no request is being served
Quiet == \A p \in Procs : Idle(p)
\* h is the request that was accepted last
LastCall(h) == h \in hist /\ \A g \in hist : g.id <= h.id

\* C1: of two refreshToken(T) calls that run concurrently, at most one succeeds.
C1_ConcurrentRefreshAtMostOne ==
    \A a, b \in Calls("refreshToken") :
        (a.id # b.id /\ a.tok = b.tok /\ Concurrent(a, b)) => ~(Ok(a) /\ Ok(b))

\* C2: of two activateUser calls that present the same token concurrently,
\* never both succeed.
C2_ConcurrentActivateOnce ==
    \A a, b \in Calls("activateUser") :
        (a.id # b.id /\ a.tok = b.tok /\ Concurrent(a, b)) => ~(Ok(a) /\ Ok(b))

\* C3: of two updatePassword calls that present the same reset token
\* concurrently, never both succeed (each success wrote the password).
C3_ConcurrentResetOnce ==
    \A a, b \in Calls("updatePassword") :
        (a.id # b.id /\ a.tok = b.tok /\ Concurrent(a, b)) => ~(Ok(a) /\ Ok(b))

\* C4: one request after the other: once a refreshToken(T) with the token T
\* that a login returned has succeeded, every later refreshToken(T) fails
\* (no login handed T out again in between).
C4_OldRefreshTokenSingleUse ==
    \A l \in Calls("login") : \A a, b \in Calls("refreshToken") :
        ( /\ Ok(l) /\ a.tok = l.ret /\ b.tok = l.ret
          /\ After(l, a) /\ Ok(a) /\ After(a, b)
          /\ ~\E m \in Calls("login") : Ok(m) /\ m.ret = l.ret /\ m.id > a.id )
        => ~Ok(b)

\* C5: every successful refreshToken returns a refresh token that differs
\* from the one presented.
C5_RefreshReturnsNewToken ==
    \A h \in Calls("refreshToken") : Ok(h) => h.ret # h.tok

\* C6: after two logins of one account, one after the other, the token the
\* first login returned is rejected by refreshToken.
C6_SecondLoginInvalidatesFirst ==
    \A l1, l2 \in Calls("login") : \A r \in Calls("refreshToken") :
        ( /\ Ok(l1) /\ Ok(l2) /\ l1.usr = l2.usr
          /\ After(l1, l2) /\ After(l2, r) /\ r.tok = l1.ret )
        => ~Ok(r)

\* C7: neither login nor refreshToken returns tokens for (and stores a refresh
\* token on) an account whose isActive is false at that moment.
C7_NoTokensForInactive ==
    \A h \in Calls("login") \cup Calls("refreshToken") : Ok(h) => h.active

\* C8: a token whose stored expiry is strictly before the time of the check is
\* never accepted: the request fails, and it never gets to the write that
\* activates, changes the password or stores new tokens.
C8_ExpiredNeverAccepted ==
    /\ \A h \in hist : (h.op \in Consumers /\ PastExpiry(h)) => ~Ok(h)
    /\ \A p \in Procs :
          proc[p].pc \in {"act_write", "up_write", "rt_verify", "rt_write"}
              => ~PastExpiry(proc[p])

\* C8 witness: an expired reset token and an expired refresh token were both
\* presented and both refused.
C8_Witness ==
    /\ \E h \in Calls("updatePassword") : PastExpiry(h) /\ ~Ok(h)
    /\ \E h \in Calls("refreshToken") : PastExpiry(h) /\ ~Ok(h)

\* C9: a token whose stored expiry equals the time of the check is treated as
\* expired, for each of the three token classes.
C9_ExpiryInstantExcluded ==
    \A h \in hist : (h.op \in Consumers /\ AtExpiry(h)) => ~Ok(h)

\* C10: credential validation for an email without account and for an active
\* account with a wrong password give the same result (validateUser's null,
\* Unauthorized).
NoSuchEmail(h) == h.op = "login" /\ h.usr = NoUser
WrongPassword(h) == h.op = "login" /\ h.usr # NoUser /\ h.active /\ ~h.pwOk
C10_SameFailure ==
    \A a, b \in hist :
        (NoSuchEmail(a) /\ WrongPassword(b))
            => /\ a.vres = "null" /\ b.vres = "null"
               /\ a.outcome = b.outcome /\ a.ret = b.ret /\ a.acc = b.acc

\* C10 witness: both failures have happened.
C10_Witness == \E a, b \in hist : NoSuchEmail(a) /\ WrongPassword(b)

\* C11: a login fails with AccountInactive only if the supplied password
\* verifies; an inactive account with a wrong password gets Unauthorized.
C11_InactiveOnlyWithValidCredentials ==
    \A h \in Calls("login") :
        /\ h.outcome = "forbidden" => h.pwOk
        /\ (h.usr # NoUser /\ ~h.active /\ ~h.pwOk) => h.outcome = "unauthorized"

\* C12: while the account is not activated every login fails AccountInactive;
\* activateUser with the account's token before its expiry succeeds and
\* leaves isActive true and both activation fields null; a later login with
\* the correct password succeeds and returns a token pair.
C12_ActivationLifecycle ==
    /\ \A l \in Calls("login") :
          (l.usr # NoUser /\ ~l.active) => l.outcome = "forbidden"
    /\ \A a \in Calls("activateUser") :
          /\ (a.usr # NoUser /\ a.chkNow # NullDate /\ a.chkNow < a.chkExp) => Ok(a)
          /\ (Ok(a) /\ LastCall(a) /\ Quiet)
                => /\ users[a.usr].isActive
                   /\ users[a.usr].activationToken = NullTok
                   /\ users[a.usr].activationTokenExpires = NullDate
          /\ \A l \in Calls("login") :
                (Ok(a) /\ After(a, l) /\ l.usr = a.usr /\ l.pwOk)
                    => Ok(l) /\ l.ret # NullTok /\ l.acc # NullTok

\* C12 witness: login refused as inactive, then activation, then login.
C12_Witness ==
    \E l1, l2 \in Calls("login") : \E a \in Calls("activateUser") :
        /\ l1.outcome = "forbidden" /\ After(l1, a) /\ Ok(a)
        /\ After(a, l2) /\ Ok(l2) /\ l2.ret # NullTok

\* C13: every logout reports success, whether the account has a stored
\* refresh token, has none, or does not exist; when it returns the account's
\* refreshToken and refreshTokenExpires are null; a logout of an account
\* without stored token, or of no account, changes nothing.
C13_LogoutIdempotent ==
    [][\A h \in hist' \ hist : h.op = "logout" =>
          /\ h.outcome = "ok"
          /\ RowExists(h.usr)
                => /\ users'[h.usr].refreshToken = NullTok
                   /\ users'[h.usr].refreshTokenExpires = NullDate
          /\ ( \/ ~RowExists(h.usr)
               \/ /\ users[h.usr].refreshToken = NullTok
                  /\ users[h.usr].refreshTokenExpires = NullDate )
                => users' = users]_vars

\* C13 witness: a logout of an account with a stored token, then a second
\* logout of the same account, both reported as success.
C13_Witness ==
    \E a, b \in Calls("logout") :
        /\ a.usr = b.usr /\ a.usr \in UserIds /\ After(a, b) /\ Ok(a) /\ Ok(b)
        /\ users[a.usr].refreshToken = NullTok

\* C14: a password-reset request for an email without account is answered
\* with success, like one for an existing account.
C14_ResetRequestNoEnumeration ==
    \A h \in Calls("resetPassword") : h.usr = NoUser => Ok(h)

\* C15: updatePassword with a token that matches no account, or whose reset
\* expiry has passed, fails with the Unauthorized kind.
C15_BadResetTokenUnauthorized ==
    \A h \in Calls("updatePassword") :
        (h.usr = NoUser \/ PastExpiry(h)) => h.outcome = "unauthorized"

\* C16: one request after the other: when updatePassword(T, p) succeeds the
\* account's resetToken and resetTokenExpiry are null and its hash verifies
\* p; every later updatePassword(T, q) or findByResetToken(T) fails, and a
\* failing one changes nothing.
ResetConsumers == {"updatePassword", "findByResetToken"}
C16_ResetTokenSingleUse ==
    /\ [](\A a \in Calls("updatePassword") : \A b \in hist :
            (Ok(a) /\ b.op \in ResetConsumers /\ After(a, b) /\ b.tok = a.tok)
                => ~Ok(b))
    /\ [][\A h \in hist' \ hist : h.op \in ResetConsumers =>
            /\ (h.op = "updatePassword" /\ Ok(h))
                  => /\ users'[h.usr].resetToken = NullTok
                     /\ users'[h.usr].resetTokenExpiry = NullDate
                     /\ BcryptCompare(h.pw, users'[h.usr].password)
            /\ ~Ok(h) => users' = users]_vars

\* C16 witness: a reset token was consumed, presented again with a new
\* password and refused, and the first password is still the stored one.
C16_Witness ==
    \E a, b \in Calls("updatePassword") :
        /\ Ok(a) /\ After(a, b) /\ b.tok = a.tok /\ ~Ok(b)
        /\ BcryptCompare(a.pw, users[a.usr].password)

\* C17: activateUser answers a token that matches no account and a token
\* that matches an account but has expired with the same error kind and the
\* same response content.
C17_ActivationFailuresAlike ==
    \A a, b \in Calls("activateUser") :
        (a.usr = NoUser /\ b.usr # NoUser /\ PastExpiry(b))
            => a.outcome = b.outcome /\ a.msg = b.msg

\* C18: a refreshToken call whose token matched a stored, non-expired refresh
\* token but failed JWT verification fails Unauthorized; when it returns
\* the account's refreshToken and refreshTokenExpires are null and no row
\* holds the token, and a later call with the same token fails at the lookup.
BadJwt(h) == h.op = "refreshToken" /\ h.usr # NoUser /\ h.vres = "badjwt"
C18_VerifyFailureClears ==
    /\ [](\A a \in hist : BadJwt(a) =>
            /\ a.outcome = "unauthorized"
            /\ \A b \in Calls("refreshToken") :
                  (After(a, b) /\ b.tok = a.tok)
                      => b.usr = NoUser /\ b.outcome = "unauthorized")
    /\ [][\A h \in hist' \ hist : BadJwt(h) =>
            /\ users'[h.usr].refreshToken = NullTok
            /\ users'[h.usr].refreshTokenExpires = NullDate
            /\ \A u \in Rows : users'[u].refreshToken # h.tok]_vars

\* C18 witness: a stored token failed verification, and was presented again.
C18_Witness ==
    \E a, b \in Calls("refreshToken") :
        BadJwt(a) /\ After(a, b) /\ b.tok = a.tok /\ ~Ok(b)

C20_ChangePassword ==
    [][\A h \in hist' \ hist : h.op = "changePassword" =>
          /\ Ok(h) <=> ( /\ RowExists(h.usr)
                         /\ BcryptCompare(h.pw, users[h.usr].password) )
          /\ ~Ok(h) => h.outcome = "unauthorized" /\ users' = users
          /\ Ok(h) => /\ OnlyChanged({"password"})
                      /\ BcryptCompare(h.npw, users'[h.usr].password)]_vars

\* C20 witness: one change with the right current password went through, and
\* one with a wrong current password was refused.
C20_Witness ==
    \E a, b \in Calls("changePassword") :
        /\ Ok(a) /\ a.npw # a.pw /\ After(a, b)
        /\ ~Ok(b) /\ b.usr = a.usr /\ b.pw = a.pw
        /\ BcryptCompare(a.npw, users[a.usr].password)

\* C21: in every state a row with a non-null activationToken has isActive
\* false; and isActive goes from false to true only in the step in which a
\* successful activateUser returns.
C21_ActivationTokenOnlyWhilePending ==
    /\ [](\A u \in Rows :
            (users[u].exists /\ users[u].activationToken # NullTok)
                => ~users[u].isActive)
    /\ [][\A u \in Rows :
            (users[u].exists /\ ~users[u].isActive /\ users'[u].isActive)
                => \E h \in hist' \ hist :
                      h.op = "activateUser" /\ Ok(h) /\ h.usr = u]_vars

\* C22: one request after the other: an issue stores its token; once a
\* second reset (activation) token has been issued for an account, the
\* earlier one matches no account and consuming it fails, and the newer one
\* matches the account and is accepted before its expiry (until it is
\* consumed or replaced in turn).
IssuersOf(op) ==
    IF op = "activateUser" THEN {"create", "resendActivation"}
    ELSE {"resetPassword"}
\* between i and c the token i issued was neither replaced nor consumed
Untouched(i, c) ==
    \A g \in hist :
        (g.id > i.id /\ g.id < c.id /\ g.usr = i.usr /\ Ok(g))
            => /\ g.op \notin IssuersOf(c.op)
               /\ g.op \notin {"activateUser", "updatePassword"} \/ g.tok # i.ret
C23_MailFailureSwallowed ==
    /\ [](\A m \in mail :
            \E h \in hist : h.id = m.id /\ h.op \in Issuers /\ Ok(h) /\ h.ret = m.tok)
    /\ [][mail' # mail /\ hist' = hist => users' = users /\ proc' = proc]_vars
    /\ [][\A h \in hist' \ hist : (h.op \in Issuers /\ h.usr # NoUser /\ Ok(h)) =>
            /\ \E m \in mail' \ mail : m.id = h.id /\ m.state = "pending"
            /\ \/ /\ users'[h.usr].activationToken = h.ret
                  /\ users'[h.usr].activationTokenExpires # NullDate
               \/ /\ users'[h.usr].resetToken = h.ret
                  /\ users'[h.usr].resetTokenExpiry # NullDate]_vars

\* C23 witness: the mail of a reset request failed; the request had returned
\* success and its token is still the stored one.
C23_Witness ==
    \E m \in mail : \E h \in Calls("resetPassword") :
        /\ m.state = "failed" /\ h.id = m.id /\ Ok(h)
        /\ users[h.usr].resetToken = m.tok
        /\ users[h.usr].resetTokenExpiry # NullDate

\* C24: what getProfile returns for an existing account carries neither the
\* password hash nor an activation, reset or refresh token field; for a
\* caller without account it fails NotFound.
Redacted ==
    {"password", "activationToken", "activationTokenExpires", "resetToken",
     "resetTokenExpiry", "refreshToken", "refreshTokenExpires"}
C24_ProfileRedacted ==
    \A h \in Calls("getProfile") :
        /\ Ok(h) => h.view \cap Redacted = {}
        /\ h.usr = NoUser => h.outcome = "notfound"

\* C25: verifyActivationToken returns false, and does not throw, when its
\* two inputs decode to different byte lengths; for inputs of equal decoded
\* length it returns true exactly when the decoded bytes are equal.
C25_CompareNeverThrows ==
    \A h \in Calls("verifyActivationToken") :
        LET a == HexDecode(h.stored)
            b == HexDecode(h.provided)
        IN  /\ Len(a) # Len(b) => h.outcome = "ok" /\ h.vres = "false"
            /\ Len(a) = Len(b) => h.outcome = "ok" /\ (h.vres = "true" <=> a = b)

\* C26: once a logout of an account has returned, and no login of that
\* account runs at the same time or later, the account's stored refresh token
\* stays null and no refreshToken call succeeds for it afterwards.
NoLoginSince(lo) ==
    /\ \A l \in Calls("login") : l.usr = lo.usr => After(l, lo)
    /\ \A p \in Procs : proc[p].op = "login" => proc[p].usr # lo.usr
C26_LogoutFinal ==
    \A lo \in Calls("logout") :
        (RowExists(lo.usr) /\ NoLoginSince(lo))
            => /\ users[lo.usr].refreshToken = NullTok
               /\ \A r \in Calls("refreshToken") :
                     (r.usr = lo.usr /\ Ok(r)) => After(r, lo)

\* C27: changePassword and updatePassword leave refreshToken and
\* refreshTokenExpires as they were, so a refresh token that was stored
\* before a successful password change, and was not replaced or revoked
\* since, is still accepted by refreshToken afterwards.
PasswordChangers == {"changePassword", "updatePassword"}
SessionOps == {"login", "refreshToken", "logout"}
C27_SessionsSurvivePasswordChange ==
    /\ [](\A c \in hist : \A l, r \in hist :
            ( /\ c.op \in PasswordChangers /\ Ok(c)
              /\ l.op \in {"login", "refreshToken"} /\ Ok(l) /\ l.usr = c.usr
              /\ r.op = "refreshToken" /\ r.tok = l.ret
              /\ After(l, c) /\ After(c, r)
              /\ \A g \in hist : (g.id > l.id /\ g.id < r.id) => g.op \notin SessionOps
              /\ r.chkNow < r.chkExp )
            => Ok(r) /\ r.usr = c.usr)
    /\ [][\A op \in Movers : op \in PasswordChangers =>
            \A u \in Rows :
                /\ users'[u].refreshToken = users[u].refreshToken
                /\ users'[u].refreshTokenExpires = users[u].refreshTokenExpires]_vars

\* C27 witness: the token of a login was refreshed after a password change
\* and after a password reset.
C27_Witness ==
    \E l \in Calls("login") : \E c1 \in Calls("changePassword") :
    \E c2 \in Calls("updatePassword") : \E r \in Calls("refreshToken") :
        /\ Ok(l) /\ Ok(c1) /\ Ok(c2) /\ Ok(r) /\ r.tok = l.ret
        /\ After(l, c1) /\ After(l, c2) /\ After(c1, r) /\ After(c2, r)

\* C30: after a successful changePassword or updatePassword to a new
\* password, and until the password is changed again, validateUser for the
\* active account succeeds with the new password and fails with any other.
NewPassword(c) == IF c.op = "changePassword" THEN c.npw ELSE c.pw
C30_NewPasswordWorks ==
    \A c, l \in hist :
        ( /\ c.op \in PasswordChangers /\ Ok(c)
          /\ l.op = "login" /\ l.usr = c.usr /\ l.active /\ After(c, l)
          /\ \A g \in hist :
                (g.id > c.id /\ g.id < l.id)
                    => g.op \notin PasswordChangers \cup {"update"} )
        => /\ l.pw = NewPassword(c) => l.vres = "user" /\ Ok(l)
           /\ l.pw # NewPassword(c) => l.vres = "null" /\ l.outcome = "unauthorized"

\* C30 witness: the password was changed from pw1 to pw2; a login with pw2
\* went through and one with pw1 was refused.
C30_Witness ==
    \E c \in Calls("changePassword") : \E l1, l2 \in Calls("login") :
        /\ Ok(c) /\ c.pw # c.npw /\ After(c, l1) /\ After(c, l2)
        /\ l1.pw = c.npw /\ Ok(l1)
        /\ l2.pw = c.pw /\ l2.outcome = "unauthorized"

\* C28: a refreshToken call changes no row but the one whose stored refresh
\* token equals the presented token, whether it succeeds or fails; when it
\* succeeds, both returned tokens carry that account's id as sub and its
\* email.
C28_RefreshTouchesOwnAccountOnly ==
    /\ [][\A op \in Movers : (op = "refreshToken" /\ hist' = hist) => users' = users]_vars
    /\ [][\A h \in hist' \ hist : h.op = "refreshToken" =>
            LET owner == ByRefreshToken(h.tok)
            IN  /\ \A u \in Rows : u # owner => users'[u] = users[u]
                /\ Ok(h) => /\ owner # NoUser /\ h.usr = owner
                            /\ h.ret.sub = owner /\ h.acc.sub = owner
                            /\ h.ret.email = users[owner].email
                            /\ h.acc.email = users[owner].email]_vars

\* C28 witness: the second account refreshed in a later second and got a new
\* token, and the first account's row is as it was.
C28_Witness ==
    \E r \in Calls("refreshToken") :
        /\ Ok(r) /\ r.usr = "u2" /\ r.ret.sub = "u2" /\ r.ret # r.tok
        /\ users["u2"].refreshToken = r.ret
        /\ users["u1"] = LoggedInRow

\* C29: in every state, in every row, each token column and its expiry
\* column are both null or both non-null.
C29_TokenAndExpiryTogether ==
    \A u \in Rows : users[u].exists =>
        /\ users[u].refreshToken = NullTok <=> users[u].refreshTokenExpires = NullDate
        /\ users[u].resetToken = NullTok <=> users[u].resetTokenExpiry = NullDate
        /\ users[u].activationToken = NullTok
              <=> users[u].activationTokenExpires = NullDate

\* C29 witness: an account whose activation token was consumed and whose
\* refresh token was revoked by a logout, with a reset token pending.
C29_Witness ==
    \E a \in Calls("activateUser") : \E lo \in Calls("logout") :
        /\ Ok(a) /\ lo.usr = a.usr /\ After(a, lo)
        /\ users[a.usr].activationToken = NullTok
        /\ users[a.usr].activationTokenExpires = NullDate
        /\ users[a.usr].refreshToken = NullTok
        /\ users[a.usr].refreshTokenExpires = NullDate
        /\ users[a.usr].resetToken # NullTok
        /\ users[a.usr].resetTokenExpiry # NullDate

====
